---- MODULE Spec2Model ----
(***************************************************************************)
(* CSV dataset analyser: the profiling function analyze_dataframe of the   *)
(* Flask application (flask_app.py), the same computation as the Streamlit *)
(* script performs it inline (streamlist.py), and the Flask application's  *)
(* per-session dataset store (DATASETS, _set_dataset, _clear_dataset).     *)
(*                                                                         *)
(* A text is a sequence of one-character strings, so that lower(), upper() *)
(* and the substring test are computed character by character.  A cell is  *)
(* a record: isnull (NaN in pandas) and, when not null, its text.  Column  *)
(* type labels (dtype) are not modelled: every column is an object column. *)
(* A percentage is the exact fraction [num, den] of the float the code     *)
(* computes.                                                               *)
(***************************************************************************)
EXTENDS Integers, Sequences, FiniteSets, TLC

VARIABLES app, df, column_query, word_query, stats, page,
          DATASETS, cookie, requests, issued

profilerVars == <<app, df, column_query, word_query, stats, page>>
storeVars == <<DATASETS, cookie, requests, issued>>
vars == <<app, df, column_query, word_query, stats, page,
          DATASETS, cookie, requests, issued>>

(***************************************************************************)
(* Bounds of the model.                                                    *)
(***************************************************************************)
\* Largest number of rows of a dataset.
MaxRows == 4
\* Largest number of columns of a dataset whose columns take every pattern of
\* Patterns.
MaxCols == 2
\* Number of columns of the wide datasets, all of them included columns.
WideCols == 5

(***************************************************************************)
(* Texts.                                                                  *)
(***************************************************************************)
UpperLetters == <<"A", "B", "C", "D", "E", "F", "G", "H", "I", "J", "K", "L", "M",
                  "N", "O", "P", "Q", "R", "S", "T", "U", "V", "W", "X", "Y", "Z">>
LowerLetters == <<"a", "b", "c", "d", "e", "f", "g", "h", "i", "j", "k", "l", "m",
                  "n", "o", "p", "q", "r", "s", "t", "u", "v", "w", "x", "y", "z">>

LowerChar(c) ==
    IF \E i \in DOMAIN UpperLetters : UpperLetters[i] = c
    THEN LowerLetters[CHOOSE i \in DOMAIN UpperLetters : UpperLetters[i] = c]
    ELSE c

UpperChar(c) ==
    IF \E i \in DOMAIN LowerLetters : LowerLetters[i] = c
    THEN UpperLetters[CHOOSE i \in DOMAIN LowerLetters : LowerLetters[i] = c]
    ELSE c

\* str.lower()
Lower(s) == [i \in 1..Len(s) |-> LowerChar(s[i])]

\* str.upper()
Upper(s) == [i \in 1..Len(s) |-> UpperChar(s[i])]

\* Python's `pat in s` on strings: pat occurs in s as a contiguous substring.
Contains(s, pat) ==
    \E i \in 0..(Len(s) - Len(pat)) :
        \A k \in 1..Len(pat) : s[i + k] = pat[k]

(***************************************************************************)
(* Cells, series and data frames.                                          *)
(***************************************************************************)
NaN == [isnull |-> TRUE, text |-> <<>>]
Text(s) == [isnull |-> FALSE, text |-> s]

\* pandas isnull() / notna() of one cell
IsNull(cell) == cell.isnull
NotNa(cell) == ~IsNull(cell)

\* series.isnull().sum()
IsNullSum(series) == Cardinality({r \in DOMAIN series : IsNull(series[r])})

\* series.notna().sum()
NotNaSum(series) == Cardinality({r \in DOMAIN series : NotNa(series[r])})

\* series.notna().all(): True of the empty series
NotNaAll(series) == \A r \in DOMAIN series : NotNa(series[r])

\* str(value) of a cell, also what astype(str) makes of it: NaN becomes "nan"
Str(cell) == IF IsNull(cell) THEN <<"n", "a", "n">> ELSE cell.text

\* df[col]: the series of the column named col (column names are unique)
Column(d, col) ==
    d.data[CHOOSE c \in DOMAIN d.columns : d.columns[c] = col]

\* df.shape
NumRows(d) == d.nrows
NumColumns(d) == Len(d.columns)

RECURSIVE SumSeq(_)
SumSeq(s) == IF s = <<>> THEN 0 ELSE s[1] + SumSeq(Tail(s))

RECURSIVE SelectIndices(_, _)
\* the indices of `flags` that hold TRUE, ascending, starting after index `from`
SelectIndices(flags, from) ==
    IF from >= Len(flags) THEN <<>>
    ELSE IF flags[from + 1]
         THEN <<from + 1>> \o SelectIndices(flags, from + 1)
         ELSE SelectIndices(flags, from + 1)

\* seq[:n]
Take(seq, n) == SubSeq(seq, 1, IF Len(seq) < n THEN Len(seq) ELSE n)

RECURSIVE Flatten(_)
Flatten(ss) == IF ss = <<>> THEN <<>> ELSE ss[1] \o Flatten(Tail(ss))

(***************************************************************************)
(* flask_app.py: analyze_dataframe.                                        *)
(***************************************************************************)
EXCLUDED_COLUMNS ==
    << <<"C", "r", "e", "a", "t", "e", "d", "A", "t">>,
       <<"M", "o", "d", "i", "f", "i", "e", "d", "A", "t">>,
       <<"D", "e", "l", "e", "t", "e", "d", "A", "t">>,
       <<"I", "s", "D", "e", "l", "e", "t", "e", "d">>,
       <<"C", "r", "e", "a", "t", "e", "d", "B", "y", "I", "d">>,
       <<"M", "o", "d", "i", "f", "i", "e", "d", "B", "y", "I", "d">>,
       <<"D", "e", "l", "e", "t", "e", "d", "B", "y", "I", "d">>,
       <<"G", "o", "v", "e", "r", "n", "o", "r", "a", "t", "e">> >>

\* word_examples keeps df.loc[matches].index[:3] of each column ...
ExamplesPerColumn == 3
\* ... and word_examples[:10] overall
MaxExamples == 10

Excluded(col) == \E i \in DOMAIN EXCLUDED_COLUMNS : EXCLUDED_COLUMNS[i] = col

\* [col for col in df.columns if col not in EXCLUDED_COLUMNS]
columns_to_check(d) == SelectSeq(d.columns, LAMBDA col : ~Excluded(col))

\* Variant of complete_columns: taken over df.columns, excluded columns too.
CompleteColumnsOfAll(d) ==
    SelectSeq(d.columns, LAMBDA col : NotNaAll(Column(d, col)))

\* [col for col in columns_to_check if df[col].notna().all()]
complete_columns(d) ==
    SelectSeq(columns_to_check(d), LAMBDA col : NotNaAll(Column(d, col)))

\* Variant of Percentage: an empty whole counts as fully covered (100.0).
PercentageEmptyIsFull(part, whole) ==
    IF whole # 0 THEN [num |-> part * 100, den |-> whole]
    ELSE [num |-> 100, den |-> 1]

\* (part / whole * 100) if whole else 0.0
Percentage(part, whole) ==
    IF whole # 0 THEN [num |-> part * 100, den |-> whole]
    ELSE [num |-> 0, den |-> 1]

\* missing_data = df.isnull().sum(): one count per dataset column
missing_data(d) == [c \in 1..Len(d.columns) |-> IsNullSum(d.data[c])]

\* Variant of total_missing: the largest per-column count instead of the sum.
TotalMissingMax(d) ==
    LET counts == missing_data(d)
    IN  IF counts = <<>> THEN 0
        ELSE CHOOSE m \in {counts[c] : c \in DOMAIN counts} :
                \A c \in DOMAIN counts : counts[c] <= m

\* total_missing = int(missing_data.sum())
total_missing(d) == SumSeq(missing_data(d))

\* missing_percentage, over total_cells = num_rows * num_columns
missing_percentage(d) ==
    Percentage(total_missing(d), NumRows(d) * NumColumns(d))

\* int(df.duplicated().sum()): rows equal to an earlier row, NaN equal to NaN;
\* duplicated() of an empty frame is the empty series
num_duplicates(d) ==
    IF NumRows(d) = 0 \/ NumColumns(d) = 0 THEN 0
    ELSE Cardinality({r \in 1..NumRows(d) :
            \E q \in 1..(r - 1) :
                \A c \in 1..NumColumns(d) : d.data[c][q] = d.data[c][r]})

\* Variant of CompleteCount: counts every row, null or not (series.count
\* mistaken for len).
CompleteCountAllRows(series) == Len(series)

\* complete_count = int(series.notna().sum())
CompleteCount(series) == NotNaSum(series)

\* missing_count = int(series.isnull().sum())
MissingCount(series) == IsNullSum(series)

\* the ColumnStatus appended for one column of columns_to_check
ColumnStatus(d, col) ==
    LET series == Column(d, col)
        missing_count == MissingCount(series)
        complete_count == CompleteCount(series)
    IN  [name |-> col,
         is_complete |-> (missing_count = 0),
         complete_count |-> complete_count,
         missing_count |-> missing_count,
         completion_rate |-> Percentage(complete_count, NumRows(d))]

all_columns(d) ==
    LET cols == columns_to_check(d)
    IN  [i \in 1..Len(cols) |-> ColumnStatus(d, cols[i])]

\* Variant of NameMatches: the two .lower() calls left out.
NameMatchesCaseSensitive(query, name) == Contains(name, query)

\* column_query.lower() in status.name.lower()
NameMatches(query, name) == Contains(Lower(name), Lower(query))

\* the statuses whose name matches, if column_query else []
filtered_columns(d, query) ==
    IF query # <<>>
    THEN SelectSeq(all_columns(d), LAMBDA status : NameMatches(query, status.name))
    ELSE <<>>

\* list.sort(key=..., reverse=True): a stable sort, so items come by key
\* descending and items of equal key keep their order.  keys[i] is the key of
\* items[i]; SortedPosition is the place item i takes.
SortedPosition(keys, i) ==
    1 + Cardinality({j \in DOMAIN keys :
            keys[j] > keys[i] \/ (keys[j] = keys[i] /\ j < i)})

SortReverse(items, keys) ==
    [p \in 1..Len(items) |->
        items[CHOOSE i \in DOMAIN items : SortedPosition(keys, i) = p]]

\* the MissingBreakdown entries of the columns with count > 0, in column order
MissingEntries(d) ==
    LET counts == missing_data(d)
        cols == SelectIndices([c \in 1..Len(counts) |-> counts[c] > 0], 0)
    IN  [i \in 1..Len(cols) |->
            [name |-> d.columns[cols[i]],
             missing_count |-> counts[cols[i]],
             percentage |-> Percentage(counts[cols[i]], NumRows(d))]]

\* missing_breakdown.sort(key=lambda item: item.missing_count, reverse=True)
missing_breakdown(d) ==
    LET entries == MissingEntries(d)
    IN  SortReverse(entries, [i \in 1..Len(entries) |-> entries[i].missing_count])

\* Series.str.contains(pat, case=False, na=False, regex=False): pandas tests
\* pat.upper() in x.upper()
StrContains(text, pat) == Contains(Upper(text), Upper(pat))

\* matches = df[col].astype(str).str.contains(lowered_word, ...): one flag per row
Matches(d, col, query) ==
    LET series == Column(d, col)
    IN  [r \in 1..Len(series) |-> StrContains(Str(series[r]), Lower(query))]

\* count = int(matches.sum())
MatchCount(matches) == Cardinality({r \in DOMAIN matches : matches[r]})

\* df.loc[matches].index[:3].tolist(): index labels of the RangeIndex, from 0
MatchedIndices(matches) ==
    LET rows == Take(SelectIndices(matches, 0), ExamplesPerColumn)
    IN  [i \in 1..Len(rows) |-> rows[i] - 1]

\* the columns of columns_to_check with count > 0, in the order of the loop
MatchingColumns(d, query) ==
    SelectSeq(columns_to_check(d),
              LAMBDA col : MatchCount(Matches(d, col, query)) > 0)

\* the WordResult entries in the order the loop appends them
WordEntries(d, query) ==
    LET cols == MatchingColumns(d, query)
    IN  [i \in 1..Len(cols) |->
            LET count == MatchCount(Matches(d, cols[i], query))
            IN  [name |-> cols[i],
                 count |-> count,
                 percentage |-> Percentage(count, NumRows(d))]]

\* the WordExample entries one column appends: value = str(df.loc[idx, col]),
\* row_number = int(idx) + 1
ColumnExamples(d, col, query) ==
    LET idxs == MatchedIndices(Matches(d, col, query))
    IN  [i \in 1..Len(idxs) |->
            [name |-> col,
             row_number |-> idxs[i] + 1,
             value |-> Str(Column(d, col)[idxs[i] + 1])]]

\* Variant of AllExamples: the examples collected in a second loop, over the
\* count-sorted results.
ExamplesInResultOrder(d, query) ==
    LET entries == WordEntries(d, query)
        sorted == SortReverse(entries, [i \in 1..Len(entries) |-> entries[i].count])
    IN  Flatten([i \in 1..Len(sorted) |-> ColumnExamples(d, sorted[i].name, query)])

\* the examples of the matching columns, in the order of the loop
AllExamples(d, query) ==
    LET cols == MatchingColumns(d, query)
    IN  Flatten([i \in 1..Len(cols) |-> ColumnExamples(d, cols[i], query)])

\* word_results.sort(key=lambda result: result.count, reverse=True)
word_results(d, query) ==
    IF query # <<>>
    THEN LET entries == WordEntries(d, query)
         IN  SortReverse(entries, [i \in 1..Len(entries) |-> entries[i].count])
    ELSE <<>>

\* Variant of word_examples: the cut to MaxExamples left out.
WordExamplesUncut(d, query) ==
    IF query # <<>> THEN AllExamples(d, query) ELSE <<>>

\* word_examples = word_examples[:10]
word_examples(d, query) ==
    IF query # <<>> THEN Take(AllExamples(d, query), MaxExamples) ELSE <<>>

\* word_total_occurrences += count, for every matching column
word_total_occurrences(d, query) ==
    IF query # <<>>
    THEN LET entries == WordEntries(d, query)
         IN  SumSeq([i \in 1..Len(entries) |-> entries[i].count])
    ELSE 0

\* The DatasetStats analyze_dataframe returns (the type labels left out).
analyze_dataframe(d, query, word) ==
    [num_rows |-> NumRows(d),
     num_columns |-> NumColumns(d),
     num_duplicates |-> num_duplicates(d),
     total_missing |-> total_missing(d),
     missing_percentage |-> missing_percentage(d),
     complete_columns_count |-> Len(complete_columns(d)),
     complete_columns |-> complete_columns(d),
     all_columns |-> all_columns(d),
     filtered_columns |-> filtered_columns(d, query),
     column_names |-> d.columns,
     missing_breakdown |-> missing_breakdown(d),
     word_results |-> word_results(d, word),
     word_examples |-> word_examples(d, word),
     word_total_occurrences |-> word_total_occurrences(d, word)]

(***************************************************************************)
(* streamlist.py: the same analysis, done inline by the Streamlit script.  *)
(***************************************************************************)
excluded_columns == EXCLUDED_COLUMNS

\* matched_indices = df.loc[matches].index[:3]
StExamplesPerColumn == 3
\* example_df = pd.DataFrame(example_rows[:10])
StMaxExamples == 10
\* str(df.loc[idx, col])[:100]
StValueChars == 100

StExcluded(col) == \E i \in DOMAIN excluded_columns : excluded_columns[i] = col

\* columns_to_check = [col for col in df.columns if col not in excluded_columns]
st_columns_to_check(d) == SelectSeq(d.columns, LAMBDA col : ~StExcluded(col))

\* the loop appending col to complete_columns if df[col].notna().all()
st_complete_columns(d) ==
    SelectSeq(st_columns_to_check(d), LAMBDA col : NotNaAll(Column(d, col)))

\* (part / len(df) * 100) if len(df) > 0 else 0
StPercentage(part, whole) ==
    IF whole > 0 THEN [num |-> part * 100, den |-> whole]
    ELSE [num |-> 0, den |-> 1]

\* the rows of all_columns_status, one per column of columns_to_check
all_columns_status(d) ==
    LET cols == st_columns_to_check(d)
    IN  [i \in 1..Len(cols) |->
            LET missing_count == IsNullSum(Column(d, cols[i]))
                complete_count == NotNaSum(Column(d, cols[i]))
            IN  [name |-> cols[i],
                 is_complete |-> (missing_count = 0),
                 complete_count |-> complete_count,
                 missing_count |-> missing_count,
                 completion_rate |-> StPercentage(complete_count, NumRows(d))]]

\* Series.str.contains(pat, case=False, na=False) with the default regex=True:
\* re.search(pat, x, re.IGNORECASE).  Of the regular-expression syntax the
\* model has the metacharacter "." (any character); every other character of
\* the model's queries stands for itself.
RegexContains(text, pat) ==
    \E i \in 0..(Len(text) - Len(pat)) :
        \A k \in 1..Len(pat) :
            pat[k] = "." \/ LowerChar(text[i + k]) = LowerChar(pat[k])

\* all_columns_df['name'] raises KeyError when all_columns_status is empty (a
\* DataFrame built from an empty list has no columns); the script's except
\* clause then reports an error and renders nothing further.
FilterRaises(d, search_term) ==
    search_term # <<>> /\ all_columns_status(d) = <<>>

\* filtered_df: the rows of all_columns_df whose name matches search_term
filtered_df(d, search_term) ==
    IF search_term # <<>>
    THEN SelectSeq(all_columns_status(d),
                   LAMBDA row : RegexContains(row.name, search_term))
    ELSE <<>>

\* matches = col_text.str.contains(word_search, case=False, na=False)
StMatches(d, col, word_search) ==
    LET series == Column(d, col)
    IN  [r \in 1..Len(series) |-> RegexContains(Str(series[r]), word_search)]

StMatchingColumns(d, word_search) ==
    SelectSeq(st_columns_to_check(d),
              LAMBDA col : MatchCount(StMatches(d, col, word_search)) > 0)

\* word_results as the loop appends them, before sort_values
StWordEntries(d, word_search) ==
    LET cols == StMatchingColumns(d, word_search)
    IN  [i \in 1..Len(cols) |->
            LET count == MatchCount(StMatches(d, cols[i], word_search))
            IN  [name |-> cols[i],
                 count |-> count,
                 percentage |-> [num |-> count * 100, den |-> NumRows(d)]]]

\* total_occurrences += count
total_occurrences(d, word_search) ==
    LET entries == StWordEntries(d, word_search)
    IN  SumSeq([i \in 1..Len(entries) |-> entries[i].count])

\* the rows one column appends to example_rows
StColumnExamples(d, col, word_search) ==
    LET rows == Take(SelectIndices(StMatches(d, col, word_search), 0),
                     StExamplesPerColumn)
    IN  [i \in 1..Len(rows) |->
            [name |-> col,
             row_number |-> (rows[i] - 1) + 1,
             value |-> Take(Str(Column(d, col)[rows[i]]), StValueChars)]]

\* example_rows[:10]
example_rows(d, word_search) ==
    LET cols == StMatchingColumns(d, word_search)
    IN  Take(Flatten([i \in 1..Len(cols) |->
                        StColumnExamples(d, cols[i], word_search)]),
             StMaxExamples)

RECURSIVE DescendingOrders(_, _)
\* the orders of the indices `rest` in which keys never increase
DescendingOrders(keys, rest) ==
    IF rest = {} THEN {<<>>}
    ELSE LET top == {i \in rest : \A j \in rest : keys[j] <= keys[i]}
         IN  UNION {{<<i>> \o t : t \in DescendingOrders(keys, rest \ {i})} :
                    i \in top}

\* DataFrame.sort_values(by, ascending=False): the default kind is quicksort,
\* which is not stable, so rows of equal key may come out in any order.  The
\* set of the tables the call may return.
SortValuesDescending(rows, keys) ==
    {[p \in 1..Len(rows) |-> rows[order[p]]] :
        order \in DescendingOrders(keys, DOMAIN rows)}

\* the tables word_results_df.sort_values(count, ascending=False) may be
StWordResultTables(d, word_search) ==
    LET entries == StWordEntries(d, word_search)
    IN  SortValuesDescending(entries,
                             [i \in 1..Len(entries) |-> entries[i].count])

\* the rows of missing_df with count > 0, before sort_values
StMissingRows(d) ==
    LET counts == missing_data(d)
        cols == SelectIndices([c \in 1..Len(counts) |-> counts[c] > 0], 0)
    IN  [i \in 1..Len(cols) |->
            [name |-> d.columns[cols[i]],
             missing_count |-> counts[cols[i]],
             percentage |-> [num |-> counts[cols[i]] * 100, den |-> NumRows(d)]]]

\* the tables missing_df[...].sort_values(count, ascending=False) may be
StMissingTables(d) ==
    LET rows == StMissingRows(d)
    IN  SortValuesDescending(rows, [i \in 1..Len(rows) |-> rows[i].missing_count])

\* What one run of the script shows for (df, search_term, word_search), the two
\* sorted tables being word_table and missing_table.  After the KeyError
\* (error) the sections below the column filter are not rendered.
StreamlitPage(d, search_term, word_search, word_table, missing_table) ==
    LET raised == FilterRaises(d, search_term)
        searched == ~raised /\ word_search # <<>>
    IN  [error |-> raised,
         num_rows |-> NumRows(d),
         num_columns |-> NumColumns(d),
         duplicate_rows |-> num_duplicates(d),
         complete_columns |-> st_complete_columns(d),
         complete_columns_count |-> Len(st_complete_columns(d)),
         all_columns_status |-> all_columns_status(d),
         filtered_df |-> IF raised THEN <<>> ELSE filtered_df(d, search_term),
         word_results |-> IF searched THEN word_table ELSE <<>>,
         total_occurrences |->
             IF searched THEN total_occurrences(d, word_search) ELSE 0,
         example_rows |-> IF searched THEN example_rows(d, word_search) ELSE <<>>,
         total_missing |-> IF raised THEN 0 ELSE total_missing(d),
         missing_percentage |->
             IF raised THEN StPercentage(0, 0)
             ELSE StPercentage(total_missing(d), NumRows(d) * NumColumns(d)),
         missing_df |-> IF raised THEN <<>> ELSE missing_table]

(***************************************************************************)
(* The datasets and queries the analysis is run on.                        *)
(***************************************************************************)
\* Column names in dataset order: NamesA has columns of EXCLUDED_COLUMNS
\* among the others, NamesB has none (isdeleted is not IsDeleted).
NamesA ==
    << <<"I", "d">>,
       <<"I", "s", "D", "e", "l", "e", "t", "e", "d">>,
       <<"A", "b">>,
       <<"G", "o", "v", "e", "r", "n", "o", "r", "a", "t", "e">>,
       <<"N", "a", "m", "e">>,
       <<"C", "r", "e", "a", "t", "e", "d", "A", "t">>,
       <<"C", "o", "d", "e">> >>
NamesB ==
    << <<"A", "b">>,
       <<"I", "d">>,
       <<"i", "s", "d", "e", "l", "e", "t", "e", "d">>,
       <<"C", "o", "d", "e">>,
       <<"C", "i", "t", "y">>,
       <<"T", "a", "g">>,
       <<"Z", "i", "p">>,
       <<"N", "a", "m", "e">> >>

\* The cell of row r of a column of n rows filled after pattern p.
PatternCell(p, r, n) ==
    CASE p = "text" -> Text(<<"x", "A">>)
      [] p = "other" -> Text(<<"b">>)
      [] p = "oddnull" -> IF r % 2 = 1 THEN NaN ELSE Text(<<"b">>)
      [] p = "tailnull" -> IF r = 1 THEN Text(<<"x", "A">>) ELSE NaN
      [] p = "last" -> IF r = n THEN Text(<<"x", "A">>) ELSE Text(<<"b">>)

Patterns == {"text", "other", "oddnull", "tailnull", "last"}
WidePatterns == {"text", "other"}

\* The data frame of the named columns, n rows, column c filled after pats[c].
Frame(names, n, pats) ==
    [columns |-> names,
     nrows |-> n,
     data |-> [c \in 1..Len(names) |-> [r \in 1..n |-> PatternCell(pats[c], r, n)]]]

Min(a, b) == IF a < b THEN a ELSE b

\* Up to MaxCols columns and MaxRows rows, every column after every pattern.
SmallFrames ==
    UNION {UNION {{Frame(SubSeq(names, 1, m), n, pats) : pats \in [1..m -> Patterns]} :
                    m \in 0..Min(MaxCols, Len(names)), n \in 0..MaxRows} :
           names \in {NamesA, NamesB}}

\* WideCols included columns of MaxRows rows: enough matches to overfill the
\* example list.
WideFrames ==
    LET m == Min(WideCols, Len(NamesB))
    IN  {Frame(SubSeq(NamesB, 1, m), MaxRows, pats) : pats \in [1..m -> WidePatterns]}

\* The (column query, word query) pairs of a request.
Queries ==
    { << <<>>, <<>> >>,
      << <<"D">>, <<"a">> >>,
      << <<"i", "D">>, <<"X", ".">> >> }

None == [none |-> TRUE]

(***************************************************************************)
(* The analysis as a state machine: a loaded data frame, then one request  *)
(* (Flask) or one script run (Streamlit) on it.  The analysis keeps no     *)
(* state between calls, so a second call on the frame adds no state.       *)
(***************************************************************************)
\* Browsers (one session cookie each), requests in flight at once, and
\* upload ids uuid4() hands out.
MaxClients == 2
MaxRequests == 2
MaxUploads == 2

Clients == 1..MaxClients
Slots == 1..MaxRequests

\* session.get("upload_id") of a session that holds none
NoId == 0

\* A request slot: the client, the request's copy of session["upload_id"], the
\* locals old_id and upload_id of _set_dataset / _clear_dataset, and the table.
Idle == [pc |-> "idle", client |-> 0, kind |-> "none", session |-> NoId,
         old_id |-> NoId, upload_id |-> NoId, frame |-> None]

\* The store before any request: DATASETS = {}, no cookie holds an upload_id.
StoreIdle ==
    /\ DATASETS = <<>>
    /\ cookie = [c \in Clients |-> NoId]
    /\ requests = [s \in Slots |-> Idle]
    /\ issued = 0

Init ==
    /\ app \in {"flask", "streamlit"}
    /\ df \in SmallFrames \cup WideFrames
    /\ column_query = <<>>
    /\ word_query = <<>>
    /\ stats = None
    /\ page = None
    /\ StoreIdle

\* flask_app.py index(), GET: stats = analyze_dataframe(df, column_query, word_query)
Analyze(query, word) ==
    /\ app = "flask"
    /\ stats = None
    /\ stats' = analyze_dataframe(df, query, word)
    /\ column_query' = query
    /\ word_query' = word
    /\ UNCHANGED <<app, df, page, storeVars>>

\* streamlist.py: one run of the script with the two text inputs
StreamlitRun(search_term, word_search) ==
    /\ app = "streamlit"
    /\ page = None
    /\ \E word_table \in StWordResultTables(df, word_search),
          missing_table \in StMissingTables(df) :
            page' = StreamlitPage(df, search_term, word_search,
                                  word_table, missing_table)
    /\ column_query' = search_term
    /\ word_query' = word_search
    /\ UNCHANGED <<app, df, stats, storeVars>>

Next ==
    \/ \E q \in Queries : Analyze(q[1], q[2])
    \/ \E q \in Queries : StreamlitRun(q[1], q[2])

Spec == Init /\ [][Next]_vars

(***************************************************************************)
(* flask_app.py: the dataset store.  DATASETS is one dict of the process;  *)
(* Flask's session is the client's signed cookie: a request works on the   *)
(* copy of the session its cookie carried and the response writes that     *)
(* copy back to the browser.  The server is threaded, so requests overlap; *)
(* each dict operation is one step.                                        *)
(***************************************************************************)
\* The non-empty tables index() passes to _set_dataset.
UploadFrames ==
    {Frame(SubSeq(NamesA, 1, 1), 1, <<"text">>),
     Frame(SubSeq(NamesA, 1, 2), 2, <<"oddnull", "text">>)}

\* DATASETS.pop(key, None)
Pop(store, key) == [k \in (DOMAIN store) \ {key} |-> store[k]]

\* DATASETS[key] = value
Put(store, key, value) == [k \in (DOMAIN store) \cup {key} |->
                               IF k = key THEN value ELSE store[k]]

\* index(), POST of a table that passed the checks: _set_dataset begins with
\* upload_id = str(uuid.uuid4()) and old_id = session.pop("upload_id", None)
BeginUpload(s, c, frame) ==
    /\ requests[s].pc = "idle"
    /\ issued < MaxUploads
    /\ issued' = issued + 1
    /\ requests' = [requests EXCEPT ![s] =
            [pc |-> "pop_old", client |-> c, kind |-> "upload",
             session |-> NoId, old_id |-> cookie[c],
             upload_id |-> issued + 1, frame |-> frame]]
    /\ UNCHANGED <<DATASETS, cookie, profilerVars>>

\* if old_id and old_id in DATASETS: DATASETS.pop(old_id, None)
PopOld(s) ==
    /\ requests[s].pc = "pop_old"
    /\ DATASETS' = IF requests[s].old_id # NoId /\ requests[s].old_id \in DOMAIN DATASETS
                   THEN Pop(DATASETS, requests[s].old_id)
                   ELSE DATASETS
    /\ requests' = [requests EXCEPT ![s].pc = "store"]
    /\ UNCHANGED <<cookie, issued, profilerVars>>

\* DATASETS[upload_id] = df; session["upload_id"] = upload_id
Store(s) ==
    /\ requests[s].pc = "store"
    /\ DATASETS' = Put(DATASETS, requests[s].upload_id, requests[s].frame)
    /\ requests' = [requests EXCEPT ![s].pc = "respond",
                                    ![s].session = requests[s].upload_id]
    /\ UNCHANGED <<cookie, issued, profilerVars>>

\* reset(): _clear_dataset begins with upload_id = session.pop("upload_id", None)
BeginReset(s, c) ==
    /\ requests[s].pc = "idle"
    /\ requests' = [requests EXCEPT ![s] =
            [pc |-> "clear", client |-> c, kind |-> "reset",
             session |-> NoId, old_id |-> NoId,
             upload_id |-> cookie[c], frame |-> None]]
    /\ UNCHANGED <<DATASETS, cookie, issued, profilerVars>>

\* if upload_id: DATASETS.pop(upload_id, None)
Clear(s) ==
    /\ requests[s].pc = "clear"
    /\ DATASETS' = IF requests[s].upload_id # NoId
                   THEN Pop(DATASETS, requests[s].upload_id)
                   ELSE DATASETS
    /\ requests' = [requests EXCEPT ![s].pc = "respond"]
    /\ UNCHANGED <<cookie, issued, profilerVars>>

\* return redirect(...): the response carries the request's session (flash()
\* has modified it, so it is always written) and the browser keeps it
Respond(s) ==
    /\ requests[s].pc = "respond"
    /\ cookie' = [cookie EXCEPT ![requests[s].client] = requests[s].session]
    /\ requests' = [requests EXCEPT ![s] = Idle]
    /\ UNCHANGED <<DATASETS, issued, profilerVars>>

\* index(), POST: what request.files.get("file") can hand to the checks.  A
\* file is its filename and what pd.read_csv makes of its content.
ParseError == [error |-> TRUE]

File(filename, parsed) == [filename |-> filename, parsed |-> parsed]

\* str.endswith(suffix)
EndsWith(s, suffix) ==
    /\ Len(s) >= Len(suffix)
    /\ SubSeq(s, Len(s) - Len(suffix) + 1, Len(s)) = suffix

\* DataFrame.empty: some axis has length 0
Empty(d) == NumRows(d) = 0 \/ NumColumns(d) = 0

CsvSuffix == <<".", "c", "s", "v">>

\* A header line with no data row parses to a table of no rows.
HeaderOnly == Frame(SubSeq(NamesA, 1, 2), 0, <<"text", "text">>)

Files ==
    {None,
     File(<<>>, HeaderOnly),
     File(<<"a", ".", "t", "x", "t">>, Frame(SubSeq(NamesA, 1, 1), 1, <<"text">>)),
     File(<<"a", ".", "c", "s", "v">>, ParseError),
     File(<<"a", ".", "c", "s", "v">>, HeaderOnly)}
    \cup {File(<<"a", ".", "c", "s", "v">>, frame) : frame \in UploadFrames}
    \cup {File(<<"B", ".", "C", "S", "V">>, frame) : frame \in UploadFrames}

\* The checks of index() on a POST, in the order of the code; "stored" is the
\* path that reaches _set_dataset.
Outcome(file) ==
    IF file = None \/ file.filename = <<>> THEN "no_file"
    ELSE IF ~EndsWith(Lower(file.filename), CsvSuffix) THEN "not_csv"
    ELSE IF file.parsed = ParseError THEN "parse_error"
    ELSE IF Empty(file.parsed) THEN "empty"
    ELSE "stored"

\* index(), POST that fails a check: flash(...) and return redirect(...); the
\* session the cookie carried is not touched apart from the flashed message
RejectUpload(s, c, file) ==
    /\ requests[s].pc = "idle"
    /\ Outcome(file) # "stored"
    /\ requests' = [requests EXCEPT ![s] =
            [pc |-> "respond", client |-> c, kind |-> "rejected",
             session |-> cookie[c], old_id |-> NoId,
             upload_id |-> NoId, frame |-> None]]
    /\ UNCHANGED <<DATASETS, cookie, issued, profilerVars>>

\* index(), GET: the request arrives with the session of its cookie
BeginGet(s, c) ==
    /\ requests[s].pc = "idle"
    /\ requests' = [requests EXCEPT ![s] =
            [pc |-> "get_dataset", client |-> c, kind |-> "get",
             session |-> cookie[c], old_id |-> NoId,
             upload_id |-> cookie[c], frame |-> None]]
    /\ UNCHANGED <<DATASETS, cookie, issued, profilerVars>>

\* _get_dataset(): None without an upload_id, else DATASETS.get(upload_id)
get_dataset(upload_id) ==
    IF upload_id = NoId THEN None
    ELSE IF upload_id \in DOMAIN DATASETS THEN DATASETS[upload_id]
    ELSE None

\* df = _get_dataset(); stats = None; the two queries are read from the
\* request (redirect(url_for("index")) sends the browser here with none);
\* stats = analyze_dataframe(...) if df is not None; the page is rendered and
\* the cookie is left as it is
GetDataset(s, query, word) ==
    /\ requests[s].pc = "get_dataset"
    /\ df' = get_dataset(requests[s].upload_id)
    /\ column_query' = query
    /\ word_query' = word
    /\ stats' = IF df' # None THEN analyze_dataframe(df', query, word) ELSE None
    /\ requests' = [requests EXCEPT ![s] = Idle]
    /\ UNCHANGED <<app, page, DATASETS, cookie, issued>>

StoreInit ==
    /\ app = "flask"
    /\ df = Frame(<<>>, 0, <<>>)
    /\ column_query = <<>>
    /\ word_query = <<>>
    /\ stats = None
    /\ page = None
    /\ StoreIdle

StoreNext ==
    \/ \E s \in Slots, c \in Clients, file \in Files :
            Outcome(file) = "stored" /\ BeginUpload(s, c, file.parsed)
    \/ \E s \in Slots, c \in Clients, file \in Files : RejectUpload(s, c, file)
    \/ \E s \in Slots, c \in Clients : BeginGet(s, c)
    \/ \E s \in Slots : GetDataset(s, <<>>, <<>>)
    \/ \E s \in Slots : PopOld(s)
    \/ \E s \in Slots : Store(s)
    \/ \E s \in Slots, c \in Clients : BeginReset(s, c)
    \/ \E s \in Slots : Clear(s)
    \/ \E s \in Slots : Respond(s)

SpecStore == StoreInit /\ [][StoreNext]_vars

(***************************************************************************)
(* What the properties say, written against the data frame itself.         *)
(***************************************************************************)
ExcludedSet == {EXCLUDED_COLUMNS[i] : i \in DOMAIN EXCLUDED_COLUMNS}

\* the dataset columns outside the ExcludedSet, in dataset order
IncludedColumns(d) == SelectSeq(d.columns, LAMBDA col : col \notin ExcludedSet)

\* the position of a column in the dataset
ColIndex(d, col) == CHOOSE c \in 1..Len(d.columns) : d.columns[c] = col

\* the rows of column c whose cell is null
NullRows(d, c) == {r \in 1..d.nrows : d.data[c][r].isnull}

Names(entries) == [i \in 1..Len(entries) |-> entries[i].name]

\* pat occurs in s, letters compared without regard to case, every character
\* of pat standing for itself
FoldedContains(s, pat) ==
    \E i \in 0..(Len(s) - Len(pat)) :
        \A k \in 1..Len(pat) : LowerChar(s[i + k]) = LowerChar(pat[k])

\* the text of a cell, a null cell being the fixed literal nan
CellText(cell) == IF cell.isnull THEN <<"n", "a", "n">> ELSE cell.text

\* the rows of the column named col whose cell text contains the query
MatchRows(d, col, query) ==
    {r \in 1..d.nrows : FoldedContains(CellText(d.data[ColIndex(d, col)][r]), query)}

InRange(pct) == pct.den > 0 /\ 0 <= pct.num /\ pct.num <= 100 * pct.den
IsZero(pct) == pct.num = 0

\* entries come by key descending, equal keys in dataset column order
SortedStable(d, entries, keys) ==
    \A i \in 1..(Len(entries) - 1) :
        \/ keys[i] > keys[i + 1]
        \/ /\ keys[i] = keys[i + 1]
           /\ ColIndex(d, entries[i].name) < ColIndex(d, entries[i + 1].name)

(***************************************************************************)
(* C1.  For every dataset of N rows and every ColumnStatus of all_columns  *)
(* (and every row of the Streamlit script's all_columns_status),           *)
(* complete_count + missing_count = N.                                     *)
(***************************************************************************)
C1_CountsPartitionRows ==
    /\ stats # None =>
         \A i \in 1..Len(stats.all_columns) :
            stats.all_columns[i].complete_count
              + stats.all_columns[i].missing_count = df.nrows
    /\ page # None =>
         \A i \in 1..Len(page.all_columns_status) :
            page.all_columns_status[i].complete_count
              + page.all_columns_status[i].missing_count = df.nrows

\* a profile with a column that has both null and non-null cells
C1_Witness ==
    /\ stats # None
    /\ \E i \in 1..Len(stats.all_columns) :
          /\ stats.all_columns[i].missing_count > 0
          /\ stats.all_columns[i].complete_count > 0

(***************************************************************************)
(* C2.  The sum of missing_count over all_columns (the included columns)   *)
(* is at most total_missing, and equals it when no column of the dataset   *)
(* is excluded (as when the ExcludedSet is empty).                         *)
(***************************************************************************)
IncludedMissing(st) ==
    SumSeq([i \in 1..Len(st.all_columns) |-> st.all_columns[i].missing_count])

\* C2: the included columns' missing counts sum to at most total_missing, and
\* to exactly total_missing when no dataset column is excluded.
C2_IncludedMissingAtMostTotal ==
    stats # None =>
        /\ IncludedMissing(stats) <= stats.total_missing
        /\ (\A c \in 1..Len(df.columns) : df.columns[c] \notin ExcludedSet)
              => IncludedMissing(stats) = stats.total_missing

\* an excluded column with null cells beside an included one with null cells
C2_Witness ==
    /\ stats # None
    /\ 0 < IncludedMissing(stats)
    /\ IncludedMissing(stats) < stats.total_missing

\* equality on a dataset without excluded columns, with null cells in two columns
C2_WitnessEqual ==
    /\ stats # None
    /\ \A c \in 1..Len(df.columns) : df.columns[c] \notin ExcludedSet
    /\ Cardinality({c \in 1..Len(df.columns) : NullRows(df, c) # {}}) >= 2

(***************************************************************************)
(* C3, as stated: completion_rate and missing_percentage are in [0, 100]   *)
(* and each is 0 exactly when N = 0.                                       *)
(***************************************************************************)
C3_ZeroExactlyWhenEmpty ==
    stats # None =>
        /\ \A i \in 1..Len(stats.all_columns) :
              /\ InRange(stats.all_columns[i].completion_rate)
              /\ IsZero(stats.all_columns[i].completion_rate) <=> (df.nrows = 0)
        /\ InRange(stats.missing_percentage)
        /\ IsZero(stats.missing_percentage) <=> (df.nrows = 0)

(***************************************************************************)
(* C3, amended: completion_rate and missing_percentage are in [0, 100] and *)
(* are 0 when N = 0; a completion_rate is 0 exactly when the column has no *)
(* non-null cell and missing_percentage is 0 exactly when the dataset has  *)
(* no null cell.                                                           *)
(***************************************************************************)
C3_PercentagesInRange ==
    stats # None =>
        /\ \A i \in 1..Len(stats.all_columns) :
              /\ InRange(stats.all_columns[i].completion_rate)
              /\ df.nrows = 0 => IsZero(stats.all_columns[i].completion_rate)
              /\ IsZero(stats.all_columns[i].completion_rate)
                   <=> (NullRows(df, ColIndex(df, stats.all_columns[i].name))
                          = 1..df.nrows)
        /\ InRange(stats.missing_percentage)
        /\ df.nrows = 0 => IsZero(stats.missing_percentage)
        /\ IsZero(stats.missing_percentage)
             <=> (\A c \in 1..Len(df.columns) : NullRows(df, c) = {})

\* rows exist, one column is entirely null (rate 0) and another has no null
C3_Witness ==
    /\ stats # None
    /\ df.nrows > 0
    /\ \E i \in 1..Len(stats.all_columns) :
          IsZero(stats.all_columns[i].completion_rate)
    /\ \E i \in 1..Len(stats.all_columns) :
          stats.all_columns[i].completion_rate.num
            = 100 * stats.all_columns[i].completion_rate.den

(***************************************************************************)
(* C4.  complete_columns is the list of the included columns, in dataset   *)
(* order, that have no null cell; it agrees with the is_complete flags of  *)
(* all_columns; complete_columns_count is its length; with N = 0 every     *)
(* included column is complete.  The same of the Streamlit script.         *)
(***************************************************************************)
CompleteOK(d, complete, count, statuses) ==
    /\ complete = SelectSeq(IncludedColumns(d),
                            LAMBDA col : NullRows(d, ColIndex(d, col)) = {})
    /\ Names(statuses) = IncludedColumns(d)
    /\ \A i \in 1..Len(statuses) :
          /\ statuses[i].is_complete <=> (statuses[i].missing_count = 0)
          /\ statuses[i].is_complete
               <=> (\E k \in 1..Len(complete) : complete[k] = statuses[i].name)
    /\ count = Len(complete)
    /\ d.nrows = 0 => complete = IncludedColumns(d)

\* C4: complete_columns, the is_complete flags and complete_columns_count
\* agree with the null cells of the included columns, in both implementations.
C4_CompleteColumns ==
    /\ stats # None =>
         CompleteOK(df, stats.complete_columns, stats.complete_columns_count,
                    stats.all_columns)
    /\ page # None =>
         CompleteOK(df, page.complete_columns, page.complete_columns_count,
                    page.all_columns_status)

\* the empty dataset of two included columns: both reported complete
C4_Witness ==
    /\ stats # None
    /\ df.nrows = 0
    /\ stats.complete_columns_count = 2
    /\ Len(stats.all_columns) = 2

\* a complete excluded column beside an incomplete included one
C4_WitnessExcluded ==
    /\ stats # None
    /\ stats.complete_columns = <<>>
    /\ Len(stats.all_columns) > 0
    /\ \E c \in 1..Len(df.columns) :
          df.columns[c] \in ExcludedSet /\ NullRows(df, c) = {}

(***************************************************************************)
(* C5.  missing_breakdown (the Streamlit script's missing_df) has exactly   *)
(* one entry for each dataset column with a null cell, excluded columns    *)
(* too, ordered by missing_count descending, columns of equal              *)
(* missing_count in dataset column order.                                  *)
(***************************************************************************)
BreakdownEntries(d, table) ==
    /\ Len(table) = Cardinality({c \in 1..Len(d.columns) : NullRows(d, c) # {}})
    /\ \A c \in 1..Len(d.columns) :
          NullRows(d, c) # {} =>
              \E i \in 1..Len(table) :
                  /\ table[i].name = d.columns[c]
                  /\ table[i].missing_count = Cardinality(NullRows(d, c))

BreakdownOK(d, table) ==
    /\ BreakdownEntries(d, table)
    /\ SortedStable(d, table, [i \in 1..Len(table) |-> table[i].missing_count])

C5_FlaskBreakdown ==
    stats # None => BreakdownOK(df, stats.missing_breakdown)

\* The part of C5 the Streamlit script keeps: the entries, and the descending
\* order without the order of ties.
C5_StreamlitBreakdown ==
    (page # None /\ ~page.error) =>
        /\ BreakdownEntries(df, page.missing_df)
        /\ \A i \in 1..(Len(page.missing_df) - 1) :
              page.missing_df[i].missing_count >= page.missing_df[i + 1].missing_count

\* an excluded and an included column with the same number of null cells
C5_Witness ==
    /\ stats # None
    /\ \E i \in 1..(Len(stats.missing_breakdown) - 1) :
          /\ stats.missing_breakdown[i].missing_count
               = stats.missing_breakdown[i + 1].missing_count
          /\ \/ stats.missing_breakdown[i].name \in ExcludedSet
             \/ stats.missing_breakdown[i + 1].name \in ExcludedSet

(***************************************************************************)
(* C6.  With an empty columnQuery filtered_columns is empty; with a        *)
(* non-empty one it is the subsequence of all_columns whose name contains  *)
(* the query without regard to case, so no excluded column is in it.       *)
(***************************************************************************)
C6_FilteredColumns ==
    stats # None =>
        /\ column_query = <<>> => stats.filtered_columns = <<>>
        /\ column_query # <<>> =>
              /\ stats.filtered_columns
                   = SelectSeq(stats.all_columns,
                               LAMBDA status : FoldedContains(status.name, column_query))
              /\ \A i \in 1..Len(stats.filtered_columns) :
                    stats.filtered_columns[i].name \notin ExcludedSet

\* a query that an included and an excluded column match, in another case
C6_Witness ==
    /\ stats # None
    /\ column_query # <<>>
    /\ stats.filtered_columns # <<>>
    /\ \E i \in 1..Len(stats.filtered_columns) :
          ~Contains(stats.filtered_columns[i].name, column_query)
    /\ \E c \in 1..Len(df.columns) :
          /\ df.columns[c] \in ExcludedSet
          /\ FoldedContains(df.columns[c], column_query)

\* a dataset with columns, and no query: nothing is listed
C6_WitnessEmptyQuery ==
    /\ stats # None
    /\ column_query = <<>>
    /\ Len(stats.all_columns) > 0

(***************************************************************************)
(* C7.  For a non-empty wordQuery, word_results has exactly one entry for  *)
(* each included column with a cell whose text (nan for a null cell)       *)
(* contains the query as a literal substring without regard to case, its   *)
(* count the number of such cells; no excluded column; ordered by count    *)
(* descending, ties in dataset column order.  For an empty wordQuery       *)
(* word_results and word_examples are empty and the total is 0.            *)
(***************************************************************************)
WordEntriesOK(d, query, table) ==
    LET matching == SelectSeq(IncludedColumns(d),
                              LAMBDA col : MatchRows(d, col, query) # {})
    IN  /\ Len(table) = Len(matching)
        /\ \A k \in 1..Len(matching) :
              \E i \in 1..Len(table) :
                  /\ table[i].name = matching[k]
                  /\ table[i].count = Cardinality(MatchRows(d, matching[k], query))
        /\ \A i \in 1..Len(table) : table[i].name \notin ExcludedSet

WordResultsOK(d, query, table, examples, total) ==
    /\ query # <<>> =>
          /\ WordEntriesOK(d, query, table)
          /\ SortedStable(d, table, [i \in 1..Len(table) |-> table[i].count])
    /\ query = <<>> => (table = <<>> /\ examples = <<>> /\ total = 0)

\* C7: the word results of either implementation are those of the literal,
\* case-insensitive substring match, by count descending, ties in column order.
C7_WordResultsLiteralMatch ==
    /\ stats # None =>
         WordResultsOK(df, word_query, stats.word_results, stats.word_examples,
                       stats.word_total_occurrences)
    /\ (page # None /\ ~page.error) =>
         WordResultsOK(df, word_query, page.word_results, page.example_rows,
                       page.total_occurrences)

\* The part of C7 that is about flask_app.py alone.
C7_FlaskWordResults ==
    stats # None =>
        WordResultsOK(df, word_query, stats.word_results, stats.word_examples,
                      stats.word_total_occurrences)

\* The Streamlit script reads the query as a regular expression: a result for
\* a column none of whose cells contains the query literally.
C7_StreamlitRegexMatch ==
    /\ page # None
    /\ \E i \in 1..Len(page.word_results) :
          MatchRows(df, page.word_results[i].name, word_query) = {}

\* null cells counted through their literal, two columns tied on the count
C7_Witness ==
    /\ stats # None
    /\ \E i \in 1..(Len(stats.word_results) - 1) :
          /\ stats.word_results[i].count = stats.word_results[i + 1].count
          /\ NullRows(df, ColIndex(df, stats.word_results[i].name)) # {}

(***************************************************************************)
(* C8.  word_examples has at most 10 entries, at most 3 of one column;     *)
(* word_total_occurrences is the sum of the counts of word_results; the    *)
(* cut to 10 examples changes neither the counts nor the list: a matching  *)
(* column all of whose examples were cut is in word_results with its full  *)
(* count.  The same of the Streamlit script's example_rows.                *)
(***************************************************************************)
ExamplesCapped(examples) ==
    /\ Len(examples) <= 10
    /\ \A i \in 1..Len(examples) :
          Cardinality({k \in 1..Len(examples) : examples[k].name = examples[i].name})
            <= 3

TotalIsSum(table, total) ==
    total = SumSeq([i \in 1..Len(table) |-> table[i].count])

\* C8: at most 10 examples, at most 3 of a column; the total is the sum of
\* the counts; every matching column keeps its entry and full count.
C8_ExamplesCappedCountsKept ==
    /\ stats # None =>
         /\ ExamplesCapped(stats.word_examples)
         /\ TotalIsSum(stats.word_results, stats.word_total_occurrences)
         /\ word_query # <<>> => WordEntriesOK(df, word_query, stats.word_results)
    /\ page # None =>
         /\ ExamplesCapped(page.example_rows)
         /\ TotalIsSum(page.word_results, page.total_occurrences)
         /\ \A k \in 1..Len(page.example_rows) :
               \E i \in 1..Len(page.word_results) :
                   page.word_results[i].name = page.example_rows[k].name

\* ten examples kept, more than three matches in a column, and a matching
\* column without any example left
C8_Witness ==
    /\ stats # None
    /\ Len(stats.word_examples) = 10
    /\ \E i \in 1..Len(stats.word_results) :
          /\ stats.word_results[i].count > 3
          /\ \A k \in 1..Len(stats.word_examples) :
                stats.word_examples[k].name # stats.word_results[i].name

(***************************************************************************)
(* C9.  word_examples lists, for each matching included column in dataset *)
(* column order (not the order of word_results), the first up to 3         *)
(* matching rows in ascending row order, cut to the first 10 overall; each *)
(* example has the 1-based number of a row whose cell in that column       *)
(* matches and the text of exactly that cell.                              *)
(***************************************************************************)
\* the number of examples a matching column has when nothing is cut
FullShare(d, col, query) ==
    IF Cardinality(MatchRows(d, col, query)) < 3
    THEN Cardinality(MatchRows(d, col, query)) ELSE 3

Share(examples, col) ==
    Cardinality({k \in 1..Len(examples) : examples[k].name = col})

\* C9: the examples are the first 10 of the list made, column by column in
\* dataset order, of each matching column's first 3 matching rows.
C9_ExamplesInColumnRowOrder ==
    (stats # None /\ word_query # <<>>) =>
        LET ex == stats.word_examples
            rows(col) == MatchRows(df, col, word_query)
            included == IncludedColumns(df)
        IN  /\ \A k \in 1..Len(ex) :
                  /\ \E c \in 1..Len(included) : included[c] = ex[k].name
                  /\ ex[k].row_number \in rows(ex[k].name)
                  /\ ex[k].value
                       = CellText(df.data[ColIndex(df, ex[k].name)][ex[k].row_number])
                  \* the first matching rows: none before it is left out
                  /\ \A r \in rows(ex[k].name) :
                        r < ex[k].row_number =>
                            \E j \in 1..(k - 1) :
                                ex[j].name = ex[k].name /\ ex[j].row_number = r
            /\ \A k \in 1..(Len(ex) - 1) :
                  \/ /\ ex[k].name = ex[k + 1].name
                     /\ ex[k].row_number < ex[k + 1].row_number
                  \/ ColIndex(df, ex[k].name) < ColIndex(df, ex[k + 1].name)
            \* a prefix of the full list: a column is short only at the cut
            /\ \A c \in 1..Len(included) :
                  \/ Share(ex, included[c]) = FullShare(df, included[c], word_query)
                  \/ /\ Len(ex) = 10
                     /\ \A b \in (c + 1)..Len(included) : Share(ex, included[b]) = 0

\* examples of two columns, the first column in dataset order not the first of
\* word_results, and an example from a row that is not the first row
C9_Witness ==
    /\ stats # None
    /\ Len(stats.word_examples) >= 2
    /\ stats.word_examples[1].name # stats.word_results[1].name
    /\ \E k \in 1..Len(stats.word_examples) : stats.word_examples[k].row_number >= 3

\* the examples cut at 10 inside a column
C9_WitnessCut ==
    /\ stats # None
    /\ Len(stats.word_examples) = 10
    /\ Share(stats.word_examples, stats.word_examples[10].name) = 1
    /\ Cardinality(MatchRows(df, stats.word_examples[10].name, word_query)) > 1

(***************************************************************************)
(* C10.  After any interleaving of upload and reset requests of any        *)
(* sessions, overlapping requests with the same cookie included, every key *)
(* of DATASETS is the current upload_id of exactly one session: no         *)
(* orphaned dataset is left behind.  Stated of the states with no request  *)
(* in flight.                                                              *)
(***************************************************************************)
Quiescent == \A s \in Slots : requests[s].pc = "idle"

Holders(key) == {c \in Clients : cookie[c] = key}

\* C10: with no request in flight, every key of DATASETS is the upload_id in
\* the cookie of exactly one session.
C10_StoreHoldsCurrentDatasets ==
    Quiescent =>
        \A key \in DOMAIN DATASETS : Cardinality(Holders(key)) = 1

\* The part of C10 the code keeps: a cookie's upload_id is held by no other
\* session, and a request removes only the entry its own cookie named.
C10_NoSharedEntry ==
    \A c1, c2 \in Clients :
        (c1 # c2 /\ cookie[c1] # NoId) => cookie[c1] # cookie[c2]

\* two uploads of one client were in flight together and both have answered
C10_OrphanLeft ==
    /\ Quiescent
    /\ \E key \in DOMAIN DATASETS : Holders(key) = {}

(***************************************************************************)
(* C11.  A POST upload that is rejected (no file or empty filename, a      *)
(* filename not ending in .csv, a parse failure, or a parsed table that is *)
(* empty) leaves DATASETS and the session's upload_id unchanged, so only   *)
(* non-empty tables are ever stored and the next GET of that session       *)
(* profiles the previously uploaded dataset (or shows no stats if there    *)
(* was none).                                                              *)
(***************************************************************************)
\* A step of a rejected upload: it enters a slot or its response leaves one.
RejectedStep(s) ==
    /\ requests'[s] # requests[s]
    /\ requests[s].kind = "rejected" \/ requests'[s].kind = "rejected"

\* C11: no step of a rejected upload changes DATASETS or the upload_id of any
\* session, and every table in DATASETS has at least one row and one column.
C11_RejectedUploadChangesNothing ==
    /\ [][\A s \in Slots : RejectedStep(s) =>
              (DATASETS' = DATASETS /\ cookie' = cookie)]_vars
    /\ [](\A key \in DOMAIN DATASETS : ~Empty(DATASETS[key]))

\* The parts of C11 the code keeps: a rejected upload never changes DATASETS,
C11_RejectedLeavesDATASETS ==
    [][\A s \in Slots : RejectedStep(s) => DATASETS' = DATASETS]_vars

\* the request's own copy of the session keeps the upload_id it arrived with,
C11_RejectedKeepsCarriedId ==
    [][\A s \in Slots, c \in Clients :
          (requests[s].kind = "rejected" /\ requests[s].client = c
              /\ requests'[s] = Idle)
          => cookie'[c] = requests[s].session]_vars

\* only non-empty tables are stored,
C11_OnlyNonEmptyStored ==
    \A key \in DOMAIN DATASETS : ~Empty(DATASETS[key])

\* and a GET profiles exactly the table DATASETS holds for the upload_id its
\* cookie carried, or shows no stats when there is none.
C11_GetProfilesStored ==
    [][\A s \in Slots :
          (requests[s].kind = "get" /\ requests'[s] = Idle) =>
              stats' = IF requests[s].session \in DOMAIN DATASETS
                       THEN analyze_dataframe(DATASETS[requests[s].session],
                                              <<>>, <<>>)
                       ELSE None]_vars

\* Where C11 fails: a rejected upload is about to answer with the upload_id
\* its cookie carried, the table of that id is gone, and the browser already
\* holds the id of the table an overlapping upload has stored since.
C11_StaleSessionRestored ==
    \E s \in Slots :
        /\ requests[s].kind = "rejected"
        /\ requests[s].pc = "respond"
        /\ requests[s].session # cookie[requests[s].client]
        /\ requests[s].session \notin DOMAIN DATASETS
        /\ cookie[requests[s].client] \in DOMAIN DATASETS

====
